---- MODULE Spec2Model ----
(***************************************************************************)
(* A model of the tree lister: Node.Visit builds the tree of kept entries  *)
(* from a filesystem, Node.Print renders it.  Paths are sequences of       *)
(* names, a filesystem is a function from paths to entries, a node is a    *)
(* record holding its children as a sequence of nodes.                     *)
(***************************************************************************)
EXTENDS Integers, Sequences, FiniteSets, TLC

VARIABLES fs, opts, root, vpaths, dirs, files, out, cut, pc, size, result, out2

vars == <<fs, opts, root, vpaths, dirs, files, out, cut, pc, size, result, out2>>

(***************************************************************************)
(* Bounds of the model.                                                    *)
(***************************************************************************)
MaxDeepLevel == 2
MaxFollow == 3

(***************************************************************************)
(* Names, paths and errors.                                                *)
(***************************************************************************)
NoErr == <<>>

\* An error text, split at its ": " separators.
ErrStat == <<"lstat", "permission denied">>
ErrNotExist == <<"lstat", "no such file or directory">>
ErrReadDir == <<"open", "permission denied">>
ErrDepth == <<"Depth too high">>
\* An error text without separator, and one with two of them: that of an
\* entry whose name holds a ": ", or of an Fs that wraps the error it got.
ErrPlain == <<"stat failed">>
ErrWrapped == <<"stat", "lstat", "permission denied">>

\* The characters of a name (what a regular expression sees of it).
Chars(name) ==
    CASE name = ".h" -> {".", "h"}
      [] name = "f9" -> {"f", "9"}
      [] name = "f10" -> {"f", "1", "0"}
      [] name = "root" -> {"r", "o", "t"}
      [] OTHER -> {name}

\* The names in byte-wise order: Go compares strings byte by byte.
NameOrder == <<".h", "a", "b", "c", "d", "f10", "f9", "k", "l", "root">>

NameRank(name) == CHOOSE i \in 1..Len(NameOrder) : NameOrder[i] = name

\* The names in numeric-aware order: f9 before f10.
VerOrder == <<".h", "a", "b", "c", "d", "f9", "f10", "k", "l", "root">>

VerRank(name) == CHOOSE i \in 1..Len(VerOrder) : VerOrder[i] = name

HasPrefixDot(name) == "." \in Chars(name) /\ NameRank(name) < NameRank("a")

Cwd == <<"/", "cwd">>

Join(path, name) == Append(path, name)

Base(path) == path[Len(path)]

Abs(path) == Cwd \o path

Dir(path) == SubSeq(path, 1, Len(path) - 1)

\* filepath.Clean: "." elements are dropped, ".." takes the element before it away.
RECURSIVE CleanFrom(_, _, _)
CleanFrom(path, i, acc) ==
    IF i > Len(path) THEN acc
    ELSE IF path[i] = "." THEN CleanFrom(path, i + 1, acc)
    ELSE IF path[i] = ".." /\ Len(acc) > 0 /\ acc[Len(acc)] \notin {"..", "/"}
    THEN CleanFrom(path, i + 1, Dir(acc))
    ELSE CleanFrom(path, i + 1, Append(acc, path[i]))

Clean(path) == CleanFrom(path, 1, <<>>)

(***************************************************************************)
(* The filesystem capability: Stat (an lstat) and ReadDir.                 *)
(***************************************************************************)
NilInfo ==
    [isNil |-> TRUE, name |-> "", isDir |-> FALSE, symlink |-> FALSE,
     size |-> 0, modTime |-> 0, cTime |-> 0, statT |-> FALSE]

Info(path, e) ==
    [isNil |-> FALSE, name |-> Base(path), isDir |-> e.kind = "dir",
     symlink |-> e.kind = "link", size |-> e.size, modTime |-> e.mtime,
     cTime |-> e.ctime, statT |-> TRUE]

Stat(f, path) ==
    IF path \notin DOMAIN f THEN [fi |-> NilInfo, err |-> ErrNotExist]
    ELSE IF f[path].statErr # NoErr THEN [fi |-> NilInfo, err |-> f[path].statErr]
    ELSE [fi |-> Info(path, f[path]), err |-> NoErr]

ReadDir(f, path) ==
    IF path \notin DOMAIN f \/ f[path].kind # "dir"
    THEN [names |-> <<>>, err |-> ErrNotExist]
    ELSE IF f[path].readErr # NoErr THEN [names |-> <<>>, err |-> f[path].readErr]
    ELSE [names |-> f[path].names, err |-> NoErr]

(***************************************************************************)
(* Patterns.  A pattern is the text of a regular expression; the model     *)
(* knows the alternations of literal characters below, one pattern with a  *)
(* "*" in it and one that does not compile.                                *)
(***************************************************************************)
Compiles(pattern) == pattern # "("

HasStar(pattern) == pattern = "(c.*)"

Alts(pattern) ==
    CASE pattern = "(a)" -> {"a"}
      [] pattern = "(b)" -> {"b"}
      [] pattern = "(d)" -> {"d"}
      [] pattern = "(c)" -> {"c"}
      [] pattern = "(A)" -> {"A"}
      [] pattern = "(a|b)" -> {"a", "b"}
      [] pattern = "(c.*)" -> {"c"}
      [] OTHER -> {}

Fold(ch) == IF ch = "A" THEN "a" ELSE ch

\* re.FindString(search) != "" for the pattern prefix + pattern.
FindString(pattern, ignoreCase, search) ==
    \E i \in 1..Len(search) : \E ch \in Chars(search[i]) : \E alt \in Alts(pattern) :
        \/ ch = alt
        \/ ignoreCase /\ Fold(ch) = Fold(alt)

\* A pattern that does not compile matches everything.
match_InvalidMatches(node, pattern, opt) ==
    LET search == IF HasStar(pattern) THEN node.path ELSE <<node.fi.name>>
    IN  ~Compiles(pattern) \/ FindString(pattern, opt.IgnoreCase, search)

match(node, pattern, opt) ==
    LET search == IF HasStar(pattern) THEN node.path ELSE <<node.fi.name>>
    IN  Compiles(pattern) /\ FindString(pattern, opt.IgnoreCase, search)

(***************************************************************************)
(* The comparators and the sort.                                           *)
(***************************************************************************)
ModSort(f1, f2) ==
    IF f1.isNil \/ f2.isNil THEN f2.isNil ELSE f1.modTime < f2.modTime

CTimeSort(f1, f2) ==
    IF f1.isNil \/ f2.isNil THEN f2.isNil
    ELSE IF ~f1.statT \/ ~f2.statT THEN ModSort(f1, f2)
    ELSE f1.cTime < f2.cTime

DirSort(f1, f2) ==
    IF f1.isNil \/ f2.isNil THEN f2.isNil ELSE f1.isDir /\ ~f2.isDir

VerSort(f1, f2) ==
    IF f1.isNil \/ f2.isNil THEN f2.isNil ELSE VerRank(f1.name) < VerRank(f2.name)

SizeSort(f1, f2) ==
    IF f1.isNil \/ f2.isNil THEN f2.isNil ELSE f1.size < f2.size

NameSort(f1, f2) ==
    IF f1.isNil \/ f2.isNil THEN f2.isNil ELSE NameRank(f1.name) < NameRank(f2.name)

\* NameSort is looked at first.
sortFn_NameFirst(o) ==
    CASE o.NameSort -> "NameSort"
      [] ~o.NameSort /\ o.ModSort -> "ModSort"
      [] ~o.NameSort /\ ~o.ModSort /\ o.CTimeSort -> "CTimeSort"
      [] ~o.NameSort /\ ~o.ModSort /\ ~o.CTimeSort /\ o.DirSort -> "DirSort"
      [] ~o.NameSort /\ ~o.ModSort /\ ~o.CTimeSort /\ ~o.DirSort /\ o.VerSort -> "VerSort"
      [] ~o.NameSort /\ ~o.ModSort /\ ~o.CTimeSort /\ ~o.DirSort /\ ~o.VerSort
            /\ o.SizeSort -> "SizeSort"
      [] OTHER -> "NameSort"

\* The switch of Node.sort: the comparator the option flags select.
sortFn(o) ==
    CASE o.ModSort -> "ModSort"
      [] ~o.ModSort /\ o.CTimeSort -> "CTimeSort"
      [] ~o.ModSort /\ ~o.CTimeSort /\ o.DirSort -> "DirSort"
      [] ~o.ModSort /\ ~o.CTimeSort /\ ~o.DirSort /\ o.VerSort -> "VerSort"
      [] ~o.ModSort /\ ~o.CTimeSort /\ ~o.DirSort /\ ~o.VerSort /\ o.SizeSort -> "SizeSort"
      [] OTHER -> "NameSort"

SortFunc(fn, f1, f2) ==
    CASE fn = "ModSort" -> ModSort(f1, f2)
      [] fn = "CTimeSort" -> CTimeSort(f1, f2)
      [] fn = "DirSort" -> DirSort(f1, f2)
      [] fn = "VerSort" -> VerSort(f1, f2)
      [] fn = "SizeSort" -> SizeSort(f1, f2)
      [] OTHER -> NameSort(f1, f2)

\* ByFunc.Less, and the Less of sort.Reverse(ByFunc) when rev is set.
Less(nodes, fn, rev, i, j) ==
    IF rev THEN SortFunc(fn, nodes[j].fi, nodes[i].fi)
    ELSE SortFunc(fn, nodes[i].fi, nodes[j].fi)

Swap(s, i, j) == [s EXCEPT ![i] = s[j], ![j] = s[i]]

\* sort.Sort on a slice of at most 12 elements is an insertion sort:
\* for i := 1; i < n; i++ { for j := i; j > 0 && Less(j, j-1); j-- { Swap(j, j-1) } }
RECURSIVE sink(_, _, _, _)
sink(s, fn, rev, j) ==
    IF j > 1 /\ Less(s, fn, rev, j, j - 1)
    THEN sink(Swap(s, j, j - 1), fn, rev, j - 1)
    ELSE s

RECURSIVE insertionSort(_, _, _, _)
insertionSort(s, fn, rev, i) ==
    IF i > Len(s) THEN s
    ELSE insertionSort(sink(s, fn, rev, i), fn, rev, i + 1)

sort(nodes, o) == insertionSort(nodes, sortFn(o), o.ReverSort, 2)

(***************************************************************************)
(* Node.Visit.                                                             *)
(***************************************************************************)
\* &Node{path: path, depth: depth, vpaths: ...}: the visited-set is the one
\* set of the traversal, held in the variable vpaths and threaded through.
NewNode(path, depth) ==
    [path |-> path, depth |-> depth, err |-> NoErr, fi |-> NilInfo, nodes |-> <<>>]

New(path) == NewNode(path, 0)

\* The "all" option: a name of the listing that is not visited at all.
hidden(name, o) == ~o.All /\ HasPrefixDot(name)

\* Prune looks at the directory's direct children only.
dropDir_DirectFilesOnly(nnode, f, o) ==
    \/ o.Prune /\ \A i \in 1..Len(nnode.nodes) : nnode.nodes[i].fi.isDir
    \/ o.MatchDirs /\ o.IPattern # "" /\ match(nnode, o.IPattern, o)

\* The exclusion of directories is applied only when no Pattern is set.
dropDir_NotUnderPattern(nnode, f, o) ==
    \/ o.Prune /\ f = 0
    \/ o.MatchDirs /\ o.Pattern = "" /\ o.IPattern # "" /\ match(nnode, o.IPattern, o)

\* The post-visit filter of a directory child without error.
dropDir(nnode, f, o) ==
    \/ o.Prune /\ f = 0
    \/ o.MatchDirs /\ o.IPattern # "" /\ match(nnode, o.IPattern, o)

\* The match of the directory does not spare its files the Pattern.
dropFile_NoBypass(nnode, dirMatch, o) ==
    \/ o.DirsOnly
    \/ o.Pattern # "" /\ ~match(nnode, o.Pattern, o)
    \/ o.IPattern # "" /\ match(nnode, o.IPattern, o)

\* The exclusion pattern is not applied to files.
dropFile_NoIPattern(nnode, dirMatch, o) ==
    \/ o.DirsOnly
    \/ ~dirMatch /\ o.Pattern # "" /\ ~match(nnode, o.Pattern, o)

\* The post-visit filter of a non-directory child without error.
dropFile(nnode, dirMatch, o) ==
    \/ o.DirsOnly
    \/ ~dirMatch /\ o.Pattern # "" /\ ~match(nnode, o.Pattern, o)
    \/ o.IPattern # "" /\ match(nnode, o.IPattern, o)

\* The filters are applied to a child with an error too.
dropChild_ErrorsFiltered(nnode, f, dirMatch, o) ==
    IF nnode.fi.isDir THEN dropDir(nnode, f, o) ELSE dropFile(nnode, dirMatch, o)

dropChild(nnode, f, dirMatch, o) ==
    /\ nnode.err = NoErr
    /\ IF nnode.fi.isDir THEN dropDir(nnode, f, o) ELSE dropFile(nnode, dirMatch, o)

\* The depth limit stops the listing one level later.
tooDeep_OneLater(depth, o) == o.DeepLevel > 0 /\ o.DeepLevel < depth

\* The depth limit: a directory at this depth is not listed.
tooDeep(depth, o) == o.DeepLevel > 0 /\ o.DeepLevel <= depth

\* The exclusion is decided before the listing whatever Pattern is.
skipDir_WhateverPattern(node, o) ==
    /\ node.depth # 0 /\ o.MatchDirs
    /\ o.IPattern # "" /\ match(node, o.IPattern, o)

\* The directory-match exclusion decided before the listing.
skipDir(node, o) ==
    /\ node.depth # 0 /\ o.MatchDirs
    /\ o.Pattern = "" /\ o.IPattern # "" /\ match(node, o.IPattern, o)

\* The counts of a child with an error are not added.
merge_SkipsErrored(acc, r) ==
    [nodes |-> Append(acc.nodes, r.node),
     dirs |-> IF r.node.err # NoErr THEN acc.dirs ELSE acc.dirs + r.dirs,
     files |-> IF r.node.err # NoErr THEN acc.files ELSE acc.files + r.files,
     vp |-> r.vp]

\* A child's counts are lost when it is kept.
merge_LosesDirs(acc, r) ==
    [nodes |-> Append(acc.nodes, r.node), dirs |-> acc.dirs,
     files |-> acc.files + r.files, vp |-> r.vp]

\* node.nodes = append(node.nodes, nnode); dirs, files = dirs+d, files+f
merge(acc, r) ==
    [nodes |-> Append(acc.nodes, r.node), dirs |-> acc.dirs + r.dirs,
     files |-> acc.files + r.files, vp |-> r.vp]

RECURSIVE VisitNode(_, _, _, _, _)
RECURSIVE VisitChildren(_, _, _, _, _, _, _)

\* The loop over the names of the listing, from name i on; acc holds the
\* children kept, the counts and the visited-set so far.
VisitChildren(f, o, node, names, i, dirMatch, acc) ==
    IF i > Len(names) THEN acc
    ELSE IF hidden(names[i], o)
    THEN VisitChildren(f, o, node, names, i + 1, dirMatch, acc)
    ELSE LET r == VisitNode(f, o, Join(node.path, names[i]), node.depth + 1, acc.vp)
         IN  IF dropChild(r.node, r.files, dirMatch, o)
             THEN VisitChildren(f, o, node, names, i + 1, dirMatch,
                                [acc EXCEPT !.vp = r.vp])
             ELSE VisitChildren(f, o, node, names, i + 1, dirMatch, merge(acc, r))

\* Visit of the node at path and depth with visited-set vp: the node as
\* Visit leaves it, the counts it returns and the visited-set afterwards.
VisitNode(f, o, path, depth, vp) ==
    LET vp1 == vp \cup {Clean(Abs(path))}
        st == Stat(f, path)
        node0 == NewNode(path, depth)
        node1 == [node0 EXCEPT !.fi = st.fi]
        d0 == IF depth # 0 THEN 1 ELSE 0
        dirMatch == /\ depth # 0 /\ o.MatchDirs /\ o.Pattern # ""
                    /\ match(node1, o.Pattern, o)
        rd == ReadDir(f, path)
        r == VisitChildren(f, o, node1, rd.names, 1, dirMatch,
                           [nodes |-> <<>>, dirs |-> d0, files |-> 0, vp |-> vp1])
    IN  IF st.err # NoErr
        THEN [node |-> [node0 EXCEPT !.err = st.err], dirs |-> 0, files |-> 0, vp |-> vp1]
        ELSE IF ~st.fi.isDir
        THEN [node |-> node1, dirs |-> 0, files |-> 1, vp |-> vp1]
        ELSE IF tooDeep(depth, o) \/ skipDir(node1, o)
        THEN [node |-> node1, dirs |-> d0, files |-> 0, vp |-> vp1]
        ELSE IF rd.err # NoErr
        THEN [node |-> [node1 EXCEPT !.err = rd.err], dirs |-> d0, files |-> 0, vp |-> vp1]
        ELSE [node |-> [node1 EXCEPT !.nodes = IF o.NoSort THEN r.nodes
                                               ELSE sort(r.nodes, o)],
              dirs |-> r.dirs, files |-> r.files, vp |-> r.vp]

(***************************************************************************)
(* The operating system calls of Node.print: os.Readlink and               *)
(* filepath.EvalSymlinks.  The text of a link is a path relative to the    *)
(* directory that holds the link.                                          *)
(***************************************************************************)
ErrInvalid == <<"readlink", "invalid argument">>
ErrLoop == <<"EvalSymlinks", "too many links">>

Readlink(f, path) ==
    IF path \in DOMAIN f /\ f[path].kind = "link"
    THEN [text |-> f[path].text, err |-> NoErr]
    ELSE [text |-> <<>>, err |-> ErrInvalid]

RECURSIVE resolve(_, _, _)
resolve(f, path, hops) ==
    IF path \notin DOMAIN f THEN [path |-> <<>>, err |-> ErrNotExist]
    ELSE IF f[path].kind # "link" THEN [path |-> path, err |-> NoErr]
    ELSE IF hops = 0 THEN [path |-> <<>>, err |-> ErrLoop]
    ELSE resolve(f, Clean(Dir(path) \o f[path].text), hops - 1)

EvalSymlinks(f, path) == resolve(f, path, Cardinality(DOMAIN f))

(***************************************************************************)
(* dirRecursiveSize.                                                       *)
(***************************************************************************)
RECURSIVE dirRecursiveSize(_, _)
RECURSIVE sizeLoop(_, _, _, _)
RECURSIVE sizeLoop_StopsAtError(_, _, _, _)

\* The loop ends at the first child with an error.
sizeLoop_StopsAtError(o, nodes, i, acc) ==
    IF i > Len(nodes) THEN acc
    ELSE LET nnode == nodes[i]
             sub == dirRecursiveSize(o, nnode)
         IN  IF nnode.err # NoErr
             THEN [acc EXCEPT !.err = nnode.err]
             ELSE IF ~nnode.fi.isDir
             THEN sizeLoop_StopsAtError(o, nodes, i + 1,
                                        [acc EXCEPT !.size = acc.size + nnode.fi.size])
             ELSE sizeLoop_StopsAtError(o, nodes, i + 1,
                                        [size |-> acc.size + sub.size,
                                         err |-> IF sub.err # NoErr THEN sub.err
                                                 ELSE acc.err])

\* The loop over node.nodes from child i on; acc is (size, err) so far.
sizeLoop(o, nodes, i, acc) ==
    IF i > Len(nodes) THEN acc
    ELSE LET nnode == nodes[i]
             sub == dirRecursiveSize(o, nnode)
         IN  IF nnode.err # NoErr
             THEN sizeLoop(o, nodes, i + 1, [acc EXCEPT !.err = nnode.err])
             ELSE IF ~nnode.fi.isDir
             THEN sizeLoop(o, nodes, i + 1, [acc EXCEPT !.size = acc.size + nnode.fi.size])
             ELSE sizeLoop(o, nodes, i + 1,
                           [size |-> acc.size + sub.size,
                            err |-> IF sub.err # NoErr THEN sub.err ELSE acc.err])

\* The depth of the node is not looked at.
dirRecursiveSize_NoDepthError(o, node) ==
    sizeLoop(o, node.nodes, 1, [size |-> 0, err |-> NoErr])

dirRecursiveSize(o, node) ==
    sizeLoop(o, node.nodes, 1,
             [size |-> 0,
              err |-> IF o.DeepLevel > 0 /\ node.depth >= o.DeepLevel
                      THEN ErrDepth ELSE NoErr])

(***************************************************************************)
(* formatBytes.  An int64 that is not negative is written here in base     *)
(* 1024, as the sequence of its digits from the lowest up with no zero at  *)
(* the top, so that the values around every unit are at hand: <<>> is 0,   *)
(* <<1, 1>> is 1025.  float64(i) / float64(unit) is taken as the exact     *)
(* quotient: its whole part is what the digits above the unit make, its    *)
(* fraction is what the digits below make.  The result holds the whole     *)
(* part that is written, the one decimal if there is one, the suffix.      *)
(***************************************************************************)
KB == 1024

Suffix == <<"K", "M", "G", "T", "P", "E">>

NoTenth == 10

NoResult == [whole |-> 0, tenth |-> NoTenth, unit |-> "none"]

\* i > KB^k, with the comparison turned around.
GreaterThan_OrEqual(i, k) == Len(i) > k

\* i > KB^k
GreaterThan(i, k) ==
    \/ Len(i) > k + 1
    \/ Len(i) = k + 1 /\ (i[k + 1] > 1 \/ \E j \in 1..k : i[j] > 0)

\* The whole part of i / KB^k, for i not above KB^(k+1).
Whole(i, k) ==
    (IF Len(i) > k THEN i[k + 1] ELSE 0) + (IF Len(i) > k + 1 THEN KB * i[k + 2] ELSE 0)

\* The fraction of i / KB^k: the k digits below the unit.
Fraction(i, k) == [j \in 1..k |-> IF j <= Len(i) THEN i[j] ELSE 0]

\* -1, 0 or 1 as the fraction is below, at or above one half.
CmpHalf(frac) ==
    LET k == Len(frac)
    IN  IF k = 0 THEN -1
        ELSE IF 2 * frac[k] > KB THEN 1
        ELSE IF 2 * frac[k] < KB THEN -1
        ELSE IF \E j \in 1..(k - 1) : frac[j] > 0 THEN 1 ELSE 0

RECURSIVE TimesTen(_, _, _)
\* Ten times the fraction: the digit that comes out at the top and the
\* fraction that is left; carry is what digit j takes over from below.
TimesTen(frac, j, carry) ==
    IF j > Len(frac) THEN [digit |-> carry, frac |-> <<>>]
    ELSE LET v == 10 * frac[j] + carry
             r == TimesTen(frac, j + 1, v \div KB)
         IN  [digit |-> r.digit, frac |-> <<v % KB>> \o r.frac]

\* Sprintf("%.0f", n): to the nearest whole number, a half to the even one.
RoundWhole(whole, frac) ==
    LET c == CmpHalf(frac)
    IN  IF c = 1 \/ (c = 0 /\ whole % 2 = 1) THEN whole + 1 ELSE whole

\* Sprintf("%.01f", n): to the nearest tenth, a half to the even one.
RoundTenth(whole, frac) ==
    LET t == TimesTen(frac, 1, 0)
        c == CmpHalf(t.frac)
        d == IF c = 1 \/ (c = 0 /\ t.digit % 2 = 1) THEN t.digit + 1 ELSE t.digit
    IN  IF d = 10 THEN [whole |-> whole + 1, tenth |-> 0]
        ELSE [whole |-> whole, tenth |-> d]

\* The switch of formatBytes: the exponent of the unit, 0 for plain bytes.
unitOf(i) ==
    CASE GreaterThan(i, 6) -> 6
      [] ~GreaterThan(i, 6) /\ GreaterThan(i, 5) -> 5
      [] ~GreaterThan(i, 5) /\ GreaterThan(i, 4) -> 4
      [] ~GreaterThan(i, 4) /\ GreaterThan(i, 3) -> 3
      [] ~GreaterThan(i, 3) /\ GreaterThan(i, 2) -> 2
      [] ~GreaterThan(i, 2) /\ GreaterThan(i, 1) -> 1
      [] OTHER -> 0

formatBytes(i) ==
    LET k == unitOf(i)
        whole == Whole(i, k)
        frac == Fraction(i, k)
        one == RoundTenth(whole, frac)
    IN  IF k = 0 THEN [whole |-> whole, tenth |-> NoTenth, unit |-> ""]
        ELSE IF whole >= 10
        THEN [whole |-> RoundWhole(whole, frac), tenth |-> NoTenth, unit |-> Suffix[k]]
        ELSE [whole |-> one.whole, tenth |-> one.tenth, unit |-> Suffix[k]]

(***************************************************************************)
(* Node.print.  The output is a sequence of lines; a line holds what was   *)
(* written before the node's own text (the indent and the glyph its parent *)
(* wrote), the size property, the name, the link target and the markers.   *)
(* The glyphs are written in ASCII here: "+-- " for the branch, "L-- " for *)
(* the corner, "|   " for the continuation bar.                            *)
(***************************************************************************)
Branch == "+-- "
Corner == "L-- "
Bar == "|   "
Blank == "    "

NoSize == [shown |-> FALSE, blank |-> FALSE, bytes |-> 0]

\* The size property of a node without error.
sizeProp(o, node) ==
    IF ~(o.ByteSize \/ o.UnitSize) THEN NoSize
    ELSE IF ~node.fi.isDir THEN [shown |-> TRUE, blank |-> FALSE, bytes |-> node.fi.size]
    ELSE LET rs == dirRecursiveSize(o, node)
         IN  IF rs.err # NoErr /\ rs.size <= 0
             THEN [shown |-> TRUE, blank |-> TRUE, bytes |-> 0]
             ELSE [shown |-> TRUE, blank |-> FALSE, bytes |-> rs.size]

\* The short message of an error line: msgs[1] of strings.Split(err, ": ").
errText(err) == IF Len(err) > 1 THEN err[2] ELSE err[1]

errLine(o, node, pre) ==
    [pre |-> pre, isErr |-> TRUE, msg |-> errText(node.err), size |-> NoSize,
     name |-> IF o.FullPath THEN node.path ELSE <<Base(node.path)>>,
     target |-> <<>>, recursive |-> FALSE]

displayName(o, node) ==
    IF node.depth = 0 \/ o.FullPath THEN node.path ELSE <<node.fi.name>>

\* The prefix written before child i of n children, and what its own
\* children's indent is extended by.
glyph(o, indent, i, n) ==
    IF o.NoIndent THEN <<>>
    ELSE IF i = n THEN Append(indent, Corner) ELSE Append(indent, Branch)

\* The indent below the last child is extended by the bar too.
childIndent_AlwaysBar(o, indent, i, n) ==
    IF o.NoIndent THEN indent ELSE Append(indent, Bar)

childIndent(o, indent, i, n) ==
    IF o.NoIndent THEN indent
    ELSE IF i = n THEN Append(indent, Blank) ELSE Append(indent, Bar)

\* The visited-set is never consulted.
notVisited_Always(abs, vp) == TRUE

\* Whether print follows a link to the directory at absolute path abs.
notVisited(abs, vp) == Clean(abs) \notin vp

RECURSIVE print(_, _, _, _, _, _, _)
RECURSIVE printLoop(_, _, _, _, _, _)

\* The loop over node.nodes from child i on; acc holds the children as
\* print leaves them, the lines, the visited-set and the follows so far.
printLoop(f, o, nodes, i, indent, acc) ==
    IF i > Len(nodes) THEN acc
    ELSE LET r == print(f, o, nodes[i], childIndent(o, indent, i, Len(nodes)),
                        glyph(o, indent, i, Len(nodes)), acc.vp, acc.fuel)
         IN  printLoop(f, o, nodes, i + 1, indent,
                       [nodes |-> Append(acc.nodes, r.node),
                        out |-> acc.out \o r.out,
                        vp |-> r.vp, fuel |-> r.fuel, cut |-> acc.cut \/ r.cut])

\* print of node with the given indent, pre being what the caller wrote on
\* the current line; fuel is the number of links print may still follow.
print(f, o, node, indent, pre, vp, fuel) ==
    LET isLink == node.fi.symlink
        rl == Readlink(f, node.path)
        vtarget == IF rl.err # NoErr THEN node.path ELSE rl.text
        ev == EvalSymlinks(f, node.path)
        targetPath == IF ev.err # NoErr THEN vtarget ELSE ev.path
        st == Stat(f, targetPath)
        toDir == isLink /\ o.FollowLink /\ ~st.fi.isNil /\ st.fi.isDir
        follow == toDir /\ notVisited(Abs(targetPath), vp)
        inf == VisitNode(f, o, targetPath, 0, vp)
        node1 == IF follow /\ fuel > 0 THEN [node EXCEPT !.nodes = inf.node.nodes] ELSE node
        vp1 == IF follow /\ fuel > 0 THEN inf.vp ELSE vp
        line == [pre |-> pre, isErr |-> FALSE, msg |-> "", size |-> sizeProp(o, node),
                 name |-> displayName(o, node),
                 target |-> IF isLink THEN vtarget ELSE <<>>,
                 recursive |-> toDir /\ ~follow]
        r == printLoop(f, o, node1.nodes, 1, indent,
                       [nodes |-> <<>>, out |-> <<line>>, vp |-> vp1,
                        fuel |-> IF follow /\ fuel > 0 THEN fuel - 1 ELSE fuel,
                        cut |-> follow /\ fuel = 0])
    IN  IF node.err # NoErr
        THEN [node |-> node, out |-> <<errLine(o, node, pre)>>, vp |-> vp,
              fuel |-> fuel, cut |-> FALSE]
        ELSE [node |-> [node1 EXCEPT !.nodes = r.nodes], out |-> r.out, vp |-> r.vp,
              fuel |-> r.fuel, cut |-> r.cut]

(***************************************************************************)
(* Filesystems and options the model starts from.                          *)
(***************************************************************************)
File(sz) ==
    [kind |-> "file", size |-> sz, mtime |-> 1, ctime |-> 1, names |-> <<>>,
     text |-> <<>>, statErr |-> NoErr, readErr |-> NoErr]

Directory(names) ==
    [kind |-> "dir", size |-> 4, mtime |-> 1, ctime |-> 1, names |-> names,
     text |-> <<>>, statErr |-> NoErr, readErr |-> NoErr]

Symlink(text) ==
    [kind |-> "link", size |-> 1, mtime |-> 1, ctime |-> 1, names |-> <<>>,
     text |-> text, statErr |-> NoErr, readErr |-> NoErr]

\* An entry whose Stat fails, and a directory whose ReadDir fails.
Unstatable == [File(1) EXCEPT !.statErr = ErrStat]
Unreadable == [Directory(<<>>) EXCEPT !.readErr = ErrReadDir]

NoFs == [p \in {} |-> File(0)]

Root == <<"root">>

Options ==
    [All |-> FALSE, DirsOnly |-> FALSE, FullPath |-> FALSE, IgnoreCase |-> FALSE,
     FollowLink |-> FALSE, DeepLevel |-> 0, Pattern |-> "", IPattern |-> "",
     MatchDirs |-> FALSE, Prune |-> FALSE, ByteSize |-> FALSE, UnitSize |-> FALSE,
     NoSort |-> FALSE, VerSort |-> FALSE, ModSort |-> FALSE, DirSort |-> FALSE,
     NameSort |-> FALSE, SizeSort |-> FALSE, CTimeSort |-> FALSE, ReverSort |-> FALSE,
     NoIndent |-> FALSE]

\* root/{c, a, .h}: c a directory of b and a, c/a a directory of d, .h a
\* directory of a; every entry below the root in each of its kinds.
FsFilter ==
    { (Root :> Directory(<<"c", "a", ".h">>)) @@ (<<"root", "a">> :> File(1)) @@ c @@ h :
        h \in {NoFs,
               (<<"root", ".h">> :> Directory(<<"a">>)) @@ (<<"root", ".h", "a">> :> File(2))},
        c \in {NoFs, (<<"root", "c">> :> Unreadable)}
              \cup { (<<"root", "c">> :> Directory(<<"b", "a">>)) @@ cb @@ ca :
                       cb \in {NoFs, (<<"root", "c", "b">> :> File(2)),
                               (<<"root", "c", "b">> :> Unstatable)},
                       ca \in {NoFs,
                               (<<"root", "c", "a">> :> File(1)),
                               (<<"root", "c", "a">> :> Unreadable),
                               (<<"root", "c", "a">> :> Directory(<<>>)),
                               (<<"root", "c", "a">> :> Directory(<<"d">>))
                                  @@ (<<"root", "c", "a", "d">> :> File(5)),
                               (<<"root", "c", "a">> :> Directory(<<"d">>))
                                  @@ (<<"root", "c", "a", "d">> :> Unstatable)} } }

OptsFilter ==
    { [Options EXCEPT !.All = all, !.DirsOnly = donly, !.DeepLevel = deep,
                      !.Pattern = pat, !.IPattern = ipat, !.MatchDirs = md,
                      !.Prune = prune] :
        all \in BOOLEAN, donly \in BOOLEAN, deep \in 0..MaxDeepLevel,
        pat \in {"", "(d)", "(c.*)"}, ipat \in {"", "(a)", "(c)"},
        md \in BOOLEAN, prune \in BOOLEAN }

InitFilter == fs \in FsFilter /\ opts \in OptsFilter

\* root/{l, c, .h, k}: l and k links, c a directory of the directory d,
\* which holds a file and a directory; .h a hidden directory of a file and
\* a link.
FsLink ==
    { (Root :> Directory(<<"l", "c", ".h">> \o kn)) @@ (<<"root", "l">> :> Symlink(t1))
        @@ (<<"root", "c">> :> c) @@ (<<"root", "c", "d">> :> Directory(<<"a", "d">>))
        @@ (<<"root", "c", "d", "a">> :> File(3))
        @@ (<<"root", "c", "d", "d">> :> Directory(<<>>))
        @@ (<<"root", ".h">> :> Directory(<<"a", "l">>)) @@ (<<"root", ".h", "a">> :> File(2))
        @@ (<<"root", ".h", "l">> :> Symlink(t2)) @@ (<<"root", "k">> :> Symlink(<<".h">>)) :
        kn \in {<<>>, <<"k">>},
        t1 \in {<<".">>, <<"c">>, <<".h">>, <<"l">>, <<"x">>, <<"c", "d">>, <<"c", "d", "a">>,
                <<"c", "d", "d">>},
        t2 \in {<<"..">>, <<".">>, <<"..", "c", "d">>, <<"..", "c">>},
        c \in {Directory(<<"d">>), Unreadable} }

OptsLink ==
    { [Options EXCEPT !.FollowLink = follow, !.All = all, !.DeepLevel = deep,
                      !.MatchDirs = md, !.IPattern = IF md THEN "(c)" ELSE "",
                      !.NoIndent = noind] :
        follow \in BOOLEAN, all \in BOOLEAN, deep \in 0..MaxDeepLevel,
        md \in BOOLEAN, noind \in BOOLEAN }

InitLink == fs \in FsLink /\ opts \in OptsLink

\* What the three entries of a flat directory can be: a file, the same
\* file with one of its sort keys larger, a directory, an entry whose
\* Stat fails.
Profiles ==
    {File(1), File(2), [File(1) EXCEPT !.mtime = 2], [File(1) EXCEPT !.ctime = 2],
     [Directory(<<>>) EXCEPT !.size = 1], Unstatable}

FsSort ==
    { (Root :> Directory(<<"f9", "b", "f10">>)) @@ (<<"root", "f9">> :> e1)
        @@ (<<"root", "b">> :> e2) @@ (<<"root", "f10">> :> e3) :
        e1 \in Profiles, e2 \in Profiles, e3 \in Profiles }

SortFlags == {"ModSort", "CTimeSort", "DirSort", "VerSort", "SizeSort", "NameSort"}

\* At most two of the sort key flags are set at a time.
OptsSort ==
    { [Options EXCEPT !.NoSort = nosort, !.ReverSort = rev,
                      !.ModSort = "ModSort" \in keys, !.CTimeSort = "CTimeSort" \in keys,
                      !.DirSort = "DirSort" \in keys, !.VerSort = "VerSort" \in keys,
                      !.SizeSort = "SizeSort" \in keys, !.NameSort = "NameSort" \in keys] :
        nosort \in BOOLEAN, rev \in BOOLEAN,
        keys \in {k \in SUBSET SortFlags : Cardinality(k) <= 2} }

InitSort == fs \in FsSort /\ opts \in OptsSort

\* The nested filesystems again, for the options of the rendering.
FsShow == {f \in FsFilter : <<"root", "c", "a">> \in DOMAIN f}

OptsShow ==
    { [Options EXCEPT !.All = all, !.DeepLevel = deep, !.FullPath = full,
                      !.NoIndent = noind, !.ByteSize = bsize, !.UnitSize = usize] :
        all \in BOOLEAN, deep \in 0..MaxDeepLevel, full \in BOOLEAN,
        noind \in BOOLEAN, bsize \in BOOLEAN, usize \in BOOLEAN }

InitShow == fs \in FsShow /\ opts \in OptsShow

\* The nested filesystems under patterns of which one at least does not
\* compile.
OptsInvalid ==
    { [Options EXCEPT !.Pattern = pat, !.IPattern = ipat, !.MatchDirs = md,
                      !.All = all, !.Prune = prune] :
        pat \in {"", "(", "(d)"}, ipat \in {"", "(", "(a)"},
        md \in BOOLEAN, all \in BOOLEAN, prune \in BOOLEAN } \ OptsFilter

InitInvalid == fs \in FsFilter /\ opts \in OptsInvalid

\* Directory-match mode with a Pattern that the directory root/c matches
\* and its entries do not.
OptsDirMatch ==
    { [Options EXCEPT !.MatchDirs = TRUE, !.Pattern = "(c)", !.IPattern = ipat,
                      !.DirsOnly = donly, !.Prune = prune] :
        ipat \in {"", "(b)", "(a)"}, donly \in BOOLEAN, prune \in BOOLEAN }

\* root/{c, a}: c a directory of the files b and d and of a, in the kinds
\* c/a has in FsFilter.
FsDirMatch ==
    { (Root :> Directory(<<"c", "a">>)) @@ (<<"root", "a">> :> File(1))
        @@ (<<"root", "c">> :> Directory(<<"b", "d", "a">>))
        @@ (<<"root", "c", "b">> :> File(2)) @@ (<<"root", "c", "d">> :> File(3)) @@ ca :
        ca \in {NoFs,
                (<<"root", "c", "a">> :> Unreadable),
                (<<"root", "c", "a">> :> Directory(<<"d">>))
                   @@ (<<"root", "c", "a", "d">> :> File(5)),
                (<<"root", "c", "a">> :> Directory(<<"c", "d">>))
                   @@ (<<"root", "c", "a", "c">> :> File(1))
                   @@ (<<"root", "c", "a", "d">> :> File(5))} }

InitDirMatch == fs \in FsFilter \cup FsDirMatch /\ opts \in OptsDirMatch

\* root/{a, c}: a an entry whose Stat fails and c a directory whose ReadDir
\* may fail, with error texts of one, two and three segments.
FsErrors ==
    { (Root :> Directory(<<"a", "c">>))
        @@ (<<"root", "a">> :> [File(1) EXCEPT !.statErr = se])
        @@ (<<"root", "c">> :> [Directory(<<>>) EXCEPT !.readErr = re]) :
        se \in {ErrPlain, ErrStat, ErrWrapped},
        re \in {NoErr, ErrPlain, ErrReadDir, ErrWrapped} }

OptsErrors ==
    { [Options EXCEPT !.FullPath = full, !.UnitSize = usize, !.NoIndent = noind] :
        full \in BOOLEAN, usize \in BOOLEAN, noind \in BOOLEAN }

InitErrors == fs \in FsErrors /\ opts \in OptsErrors

\* A root that is not a readable directory: absent, with a failing Stat,
\* with a failing ReadDir, or a file.
FsRoot ==
    {NoFs, Root :> Unstatable, Root :> Unreadable, Root :> File(2)}

InitRoot == fs \in FsRoot /\ opts \in OptsShow

Init ==
    /\ InitFilter \/ InitLink \/ InitSort \/ InitShow \/ InitInvalid \/ InitRoot
       \/ InitDirMatch \/ InitErrors
    /\ root = New(Root)
    /\ vpaths = {}
    /\ dirs = 0
    /\ files = 0
    /\ out = <<>>
    /\ cut = FALSE
    /\ pc = "new"
    /\ size = <<>>
    /\ result = NoResult
    /\ out2 = <<>>

\* d, f := root.Visit(opts)
Visit ==
    /\ pc = "new"
    /\ LET r == VisitNode(fs, opts, root.path, root.depth, vpaths)
       IN  /\ root' = r.node
           /\ dirs' = r.dirs
           /\ files' = r.files
           /\ vpaths' = r.vp
    /\ pc' = "visited"
    /\ UNCHANGED <<fs, opts, out, cut, size, result, out2>>

\* root.Print(opts)
NodePrint ==
    /\ pc = "visited"
    /\ LET r == print(fs, opts, root, <<>>, <<>>, vpaths, MaxFollow)
       IN  /\ root' = r.node
           /\ out' = r.out
           /\ vpaths' = r.vp
           /\ cut' = r.cut
    /\ pc' = "printed"
    /\ UNCHANGED <<fs, opts, dirs, files, size, result, out2>>

\* root.Print(opts) once more, on the tree and the visited-set the first
\* Print left; out2 is what this one writes.
NodePrintAgain ==
    /\ pc = "printed"
    /\ LET r == print(fs, opts, root, <<>>, <<>>, vpaths, MaxFollow)
       IN  /\ root' = r.node
           /\ out2' = r.out
           /\ vpaths' = r.vp
           /\ cut' = (cut \/ r.cut)
    /\ pc' = "reprinted"
    /\ UNCHANGED <<fs, opts, dirs, files, out, size, result>>

Next == Visit \/ NodePrint \/ NodePrintAgain

Spec == Init /\ [][Next]_vars

(***************************************************************************)
(* formatBytes on its own: the sizes it is given and the call.             *)
(***************************************************************************)
Zeros(k) == [j \in 1..k |-> 0]

\* The top digits and the digits just below them that the sizes are made
\* of: fractions at, just below and just above the halves that decide the
\* rounding.
Tops == {1, 2, 9, 10, 11, 1023}

Belows == {0, 1, 51, 52, 153, 154, 512, 972, 973, 1023}

\* Plain byte counts; then for every unit the unit itself, one less and
\* one more, and the sizes of two digits at the unit.  An int64 ends at
\* 8 * KB^6.
Sizes ==
    {<<>>, <<1>>, <<9>>, <<10>>, <<999>>, <<1000>>, <<1023>>}
    \cup UNION { {Zeros(k) \o <<1>>, [j \in 1..k |-> KB - 1], <<1>> \o Zeros(k - 1) \o <<1>>}
                 \cup {Zeros(k - 1) \o <<b, t>> :
                         b \in Belows, t \in IF k = 6 THEN {1, 2, 7} ELSE Tops}
               : k \in 1..6 }

InitBytes ==
    /\ size \in Sizes
    /\ result = NoResult
    /\ fs = NoFs /\ opts = Options /\ root = New(Root) /\ vpaths = {}
    /\ dirs = 0 /\ files = 0 /\ out = <<>> /\ cut = FALSE /\ pc = "new"
    /\ out2 = <<>>

\* result = formatBytes(size)
FormatBytes ==
    /\ result = NoResult
    /\ result' = formatBytes(size)
    /\ UNCHANGED <<fs, opts, root, vpaths, dirs, files, out, cut, pc, size, out2>>

NextBytes == FormatBytes

SpecBytes == InitBytes /\ [][NextBytes]_vars

(***************************************************************************)
(* Notions the properties are stated with.                                 *)
(***************************************************************************)
RECURSIVE AllNodes(_)
\* The nodes of the tree below and including node.
AllNodes(node) ==
    {node} \cup UNION {AllNodes(node.nodes[i]) : i \in 1..Len(node.nodes)}

Below(node) == AllNodes(node) \ {node}

ChildPaths(node) == {node.nodes[i].path : i \in 1..Len(node.nodes)}

IsErrNode(n) == n.err # NoErr

\* A node of a directory on which no error was recorded.
IsDirNode(n) == n.err = NoErr /\ n.fi.isDir

\* A node of a file or a link on which no error was recorded.
IsFileNode(n) == n.err = NoErr /\ ~n.fi.isDir

\* A directory whose listing failed: its Stat had succeeded.
IsUnreadNode(n) == n.err # NoErr /\ ~n.fi.isNil

ErrLines == {i \in 1..Len(out) : out[i].isErr}

PlainLines == {i \in 1..Len(out) : ~out[i].isErr}

RootLine == IF IsDirNode(root) /\ Len(out) > 0 THEN 1 ELSE 0

RECURSIVE Flat(_, _)
RECURSIVE FlatFrom(_, _, _)
\* The nodes below and including node in pre-order, each with whether it
\* lies below a link (a link has children only when print followed it).
Flat(node, added) ==
    <<[n |-> node, added |-> added]>> \o FlatFrom(node.nodes, 1, added \/ node.fi.symlink)

FlatFrom(nodes, i, added) ==
    IF i > Len(nodes) THEN <<>>
    ELSE Flat(nodes[i], added) \o FlatFrom(nodes, i + 1, added)

Count(seq, P(_)) == Cardinality({i \in 1..Len(seq) : P(seq[i])})

(***************************************************************************)
(* C1.  dirs + files, as Visit returned them, equals the number of         *)
(* non-error lines Print writes, the line of a root directory not counted. *)
(***************************************************************************)
C1_CountsEqualPlainLines ==
    pc = "printed" => dirs + files = Cardinality(PlainLines) - RootLine

\* C1 as amended: the lines of entries that Print added below a followed
\* link are not counted, and the error line of a directory whose listing
\* failed is: Visit had counted that directory before ReadDir failed.
C1_CountsEqualLinesOfVisited ==
    pc = "printed" =>
        LET flat == Flat(root, FALSE)
            AddedPlain(x) == x.added /\ ~IsErrNode(x.n)
            OwnUnread(x) == ~x.added /\ x.n.depth # 0 /\ IsUnreadNode(x.n)
        IN  /\ Len(out) = Len(flat)
            /\ \A i \in 1..Len(out) : out[i].isErr <=> IsErrNode(flat[i].n)
            /\ dirs + files = Cardinality(PlainLines) - RootLine
                                - Count(flat, AddedPlain) + Count(flat, OwnUnread)

\* A link was followed and an unreadable directory was counted.
C1_Witness ==
    /\ pc = "printed"
    /\ \E n \in Below(root) : n.fi.symlink /\ n.nodes # <<>>
    /\ \E n \in Below(root) : IsUnreadNode(n)
    /\ dirs + files > 0

(***************************************************************************)
(* C2.  With Prune, the directory children of every listed directory are   *)
(* dropped exactly when their own Visit returned zero files (or the        *)
(* directory-match exclusion applies), and that count is the number of     *)
(* files kept in the whole subtree: a directory is kept for a file kept    *)
(* at any depth beneath it.                                                *)
(***************************************************************************)
KeptFiles(node) == Cardinality({x \in AllNodes(node) : IsFileNode(x)})

\* A directory node whose children Visit listed.
Listed(n) == IsDirNode(n) /\ ~tooDeep(n.depth, opts) /\ ~skipDir(n, opts)

Excluded(n) == opts.MatchDirs /\ opts.IPattern # "" /\ match(n, opts.IPattern, opts)

TargetPath(path) ==
    LET rl == Readlink(fs, path)
        ev == EvalSymlinks(fs, path)
    IN  IF ev.err = NoErr THEN ev.path
        ELSE IF rl.err = NoErr THEN rl.text ELSE path

\* The node is a link that resolves to a directory.
LinkToDir(n) ==
    /\ n.err = NoErr /\ n.fi.symlink
    /\ LET st == Stat(fs, TargetPath(n.path)) IN ~st.fi.isNil /\ st.fi.isDir

Target(n) == Clean(Abs(TargetPath(n.path)))

Directories == {p \in DOMAIN fs : fs[p].kind = "dir"}

C3_PrintBody ==
    (pc = "visited" /\ pc' = "printed" /\ opts.FollowLink) =>
        LET flat == Flat(root', FALSE)
            Followed(j) == LinkToDir(flat[j].n) /\ ~out'[j].recursive
            SeenBefore(i) ==
                vpaths
                \cup {Clean(Abs(flat[j].n.path)) : j \in {k \in 1..(i-1) : flat[k].added}}
                \cup {Target(flat[j].n) : j \in {k \in 1..(i-1) : Followed(k)}}
        IN  /\ Len(out') = Len(flat)
            /\ cut' = FALSE
            /\ vpaths \subseteq vpaths'
            /\ Cardinality({j \in 1..Len(flat) : Followed(j)}) <= Cardinality(Directories)
            /\ \A i \in 1..Len(flat) :
                  /\ out'[i].recursive => /\ LinkToDir(flat[i].n)
                                          /\ flat[i].n.nodes = <<>>
                                          /\ Target(flat[i].n) \in vpaths'
                  /\ (LinkToDir(flat[i].n) /\ Target(flat[i].n) \in SeenBefore(i))
                        => out'[i].recursive
                  /\ Followed(i) => Target(flat[i].n) \notin vpaths

Pos(nodes, path) == CHOOSE i \in 1..Len(nodes) : nodes[i].path = path

\* The tree Visit builds from the same filesystem under options o.
TreeUnder(o) == VisitNode(fs, o, Root, 0, {}).node

NodeAt(tree, path) == CHOOSE n \in AllNodes(tree) : n.path = path

\* The keys of two siblings are equal when the comparator answers the
\* same for both orders of the pair.
EqualKeys(a, b) ==
    SortFunc(sortFn(opts), a.fi, b.fi) = SortFunc(sortFn(opts), b.fi, a.fi)

\* The place of a child in the listing of its directory.
Arrival(n, child) ==
    CHOOSE i \in 1..Len(fs[n.path].names) : Join(n.path, fs[n.path].names[i]) = child.path

C4_TiesKeepArrivalOrder ==
    (pc = "visited" /\ ~opts.NoSort) =>
        LET flipped == TreeUnder([opts EXCEPT !.ReverSort = ~opts.ReverSort])
        IN  \A n \in AllNodes(root) :
                LET m == NodeAt(flipped, n.path)
                IN  /\ ChildPaths(m) = ChildPaths(n)
                    /\ \A i, j \in 1..Len(n.nodes) :
                          LET a == n.nodes[i]
                              b == n.nodes[j]
                              before == i < j
                              beforeFlipped == Pos(m.nodes, a.path) < Pos(m.nodes, b.path)
                          IN  (i # j) =>
                                IF EqualKeys(a, b)
                                THEN /\ before <=> Arrival(n, a) < Arrival(n, b)
                                     /\ beforeFlipped <=> before
                                ELSE beforeFlipped <=> ~before

\* Under CTimeSort two siblings whose Stat failed stand against their
\* arrival order, in the forward and in the reversed sort alike.
C4_Witness ==
    /\ pc = "visited" /\ ~opts.NoSort /\ sortFn(opts) = "CTimeSort"
    /\ LET flipped == TreeUnder([opts EXCEPT !.ReverSort = ~opts.ReverSort])
       IN  \E i, j \in 1..Len(root.nodes) :
              LET a == root.nodes[i]
                  b == root.nodes[j]
              IN  /\ i < j /\ a.fi.isNil /\ b.fi.isNil
                  /\ Arrival(root, a) > Arrival(root, b)
                  /\ Pos(flipped.nodes, a.path) < Pos(flipped.nodes, b.path)

(***************************************************************************)
(* C5.  With an inclusion pattern, directory-match mode off and Prune off. *)
(***************************************************************************)
PatternOnly == opts.Pattern # "" /\ ~opts.MatchDirs /\ ~opts.Prune

\* FindString on the base name of the node.
BaseMatches(n, pattern) ==
    Compiles(pattern) /\ FindString(pattern, opts.IgnoreCase, <<Base(n.path)>>)

\* C5 as the specification states it: the tree holds only files whose base
\* name matches the pattern and not the exclusion pattern, and only
\* directories with such a file beneath them.
C5_OnlyDirsWithKeptFiles ==
    (pc = "visited" /\ PatternOnly) =>
        \A n \in Below(root) :
            /\ IsFileNode(n) => /\ BaseMatches(n, opts.Pattern)
                                /\ ~(opts.IPattern # "" /\ BaseMatches(n, opts.IPattern))
            /\ IsDirNode(n) => \E x \in Below(n) : IsFileNode(x)

\* The subject a pattern is matched against: the base name, and the whole
\* path when the pattern has a "*" in it.
Subject(p, pattern) == IF HasStar(pattern) THEN p ELSE <<Base(p)>>

Matches(p, pattern) ==
    Compiles(pattern) /\ FindString(pattern, opts.IgnoreCase, Subject(p, pattern))

StatOk(p) == p \in DOMAIN fs /\ fs[p].statErr = NoErr

IsDirPath(p) == StatOk(p) /\ fs[p].kind = "dir"

\* A listed entry that stays in the tree: one whose Stat failed, a
\* directory, or a file that matches Pattern and not IPattern.
Keeps(p) ==
    \/ ~StatOk(p)
    \/ IsDirPath(p)
    \/ /\ ~opts.DirsOnly
       /\ Matches(p, opts.Pattern)
       /\ ~(opts.IPattern # "" /\ Matches(p, opts.IPattern))

\* The entries of directory p that Visit looks at.
Entries(p) ==
    IF IsDirPath(p) /\ fs[p].readErr = NoErr /\ ~tooDeep(Len(p) - 1, opts)
    THEN {Join(p, fs[p].names[i]) :
            i \in {k \in 1..Len(fs[p].names) : ~hidden(fs[p].names[k], opts)}}
    ELSE {}

RECURSIVE KeptBelow(_)
KeptBelow(p) ==
    UNION {{q} \cup KeptBelow(q) : q \in {e \in Entries(p) : Keeps(e)}}

\* C5 as the code has it: every directory that is reached stays, with or
\* without a kept file beneath it, and so does every entry with an error;
\* the files are those whose subject matches Pattern and not IPattern.
C5_DirsStayFilesMatch ==
    (pc = "visited" /\ PatternOnly) =>
        LET kept == KeptBelow(Root)
        IN  /\ {n.path : n \in Below(root)} = kept
            /\ dirs = Cardinality({p \in kept : IsDirPath(p)})
            /\ files = Cardinality({p \in kept : StatOk(p) /\ ~IsDirPath(p)})

\* A directory whose only file does not match stays in the tree, and a
\* file is kept by a pattern that matches its path, not its base name.
C5_Witness ==
    /\ pc = "visited" /\ PatternOnly
    /\ \E n \in Below(root) :
          /\ IsDirNode(n) /\ n.nodes = <<>>
          /\ \E q \in Entries(n.path) : StatOk(q)
    /\ \E n \in Below(root) : IsFileNode(n) /\ ~BaseMatches(n, opts.Pattern)

(***************************************************************************)
(* C6.  With MatchDirs and an IPattern, a directory below the root that    *)
(* matches IPattern, and on which Visit recorded no error, is not in the   *)
(* tree and neither is anything beneath it, with or without a Pattern;     *)
(* the returned counts are those of the nodes that are in the tree, so the *)
(* directory and what lies beneath it add nothing to them.                 *)
(***************************************************************************)
IsPrefix(p, q) == Len(p) <= Len(q) /\ SubSeq(q, 1, Len(p)) = p

\* Visit records the failure of a directory's listing when it comes to
\* list it: not beyond DeepLevel, and not when the exclusion has already
\* made it return.
ListingFails(p) ==
    /\ fs[p].readErr # NoErr
    /\ ~tooDeep(Len(p) - 1, opts)
    /\ ~(/\ opts.MatchDirs /\ opts.Pattern = "" /\ opts.IPattern # ""
         /\ Matches(p, opts.IPattern))

\* The counts Visit returned are those of the tree it left.
CountsOfTree ==
    /\ dirs = Cardinality({n \in Below(root) : ~n.fi.isNil /\ n.fi.isDir})
    /\ files = Cardinality({n \in Below(root) : IsFileNode(n)})

C6_ExcludedDirsAbsent ==
    (pc = "visited" /\ opts.MatchDirs /\ opts.IPattern # "") =>
        /\ \A p \in DOMAIN fs :
              (Len(p) > 1 /\ IsDirPath(p) /\ Matches(p, opts.IPattern) /\ ~ListingFails(p))
                  => \A n \in Below(root) : ~IsPrefix(p, n.path)
        /\ CountsOfTree

\* A directory that matches IPattern holds a file that matches Pattern
\* and is reached by Visit, and a sibling of the directory is kept.
C6_Witness ==
    /\ pc = "visited" /\ opts.MatchDirs /\ opts.IPattern # "" /\ opts.Pattern # ""
    /\ \E p \in Entries(Root) :
          /\ IsDirPath(p) /\ Matches(p, opts.IPattern) /\ ~ListingFails(p)
          /\ \E q \in DOMAIN fs :
                /\ IsPrefix(p, q) /\ StatOk(q) /\ ~IsDirPath(q)
                /\ Matches(q, opts.Pattern) /\ Clean(Abs(q)) \in vpaths
    /\ root.nodes # <<>>

(***************************************************************************)
(* C7.  Errors and the siblings of failed entries.                         *)
(***************************************************************************)
\* Visit records an error on the entry at p when it visits it.
Fails(p) == ~StatOk(p) \/ (IsDirPath(p) /\ ListingFails(p))

\* The paths Visit and Print have visited.
Visited ==
    {q \in DOMAIN fs \cup UNION {Entries(p) : p \in DOMAIN fs} : Clean(Abs(q)) \in vpaths}

RECURSIVE Strip(_)
RECURSIVE StripFrom(_, _)
\* The tree without its error nodes.
Strip(node) == [node EXCEPT !.nodes = StripFrom(node.nodes, 1)]

StripFrom(nodes, i) ==
    IF i > Len(nodes) THEN <<>>
    ELSE IF IsErrNode(nodes[i]) THEN StripFrom(nodes, i + 1)
    ELSE <<Strip(nodes[i])>> \o StripFrom(nodes, i + 1)

\* The filesystem with the failing entries left out of the listings.
Healed ==
    [p \in DOMAIN fs |->
        [fs[p] EXCEPT !.names = SelectSeq(@, LAMBDA nm : ~Fails(Join(p, nm)))]]

\* What a line shows of its node.
Shown(line) ==
    [name |-> line.name, target |-> line.target, recursive |-> line.recursive,
     bytes |-> line.size.bytes]

ShownOf(lines) == [i \in 1..Len(lines) |-> Shown(lines[i])]

NotErrLine(line) == ~line.isErr

Priority == <<"ModSort", "CTimeSort", "DirSort", "VerSort", "SizeSort", "NameSort">>

FlagSet(o, key) ==
    CASE key = "ModSort" -> o.ModSort
      [] key = "CTimeSort" -> o.CTimeSort
      [] key = "DirSort" -> o.DirSort
      [] key = "VerSort" -> o.VerSort
      [] key = "SizeSort" -> o.SizeSort
      [] OTHER -> o.NameSort

FlagsSet(o) == {i \in 1..Len(Priority) : FlagSet(o, Priority[i])}

Chosen(o) ==
    IF FlagsSet(o) = {} THEN "NameSort"
    ELSE Priority[CHOOSE i \in FlagsSet(o) : \A j \in FlagsSet(o) : i <= j]

\* The comparator puts a strictly before b.
Strictly(key, a, b) == SortFunc(key, a.fi, b.fi) /\ ~SortFunc(key, b.fi, a.fi)

C8_OneComparatorByPriority ==
    pc = "visited" =>
        \A n \in AllNodes(root) : \A i, j \in 1..Len(n.nodes) :
            LET a == n.nodes[i]
                b == n.nodes[j]
                key == Chosen(opts)
                arrival == Arrival(n, a) < Arrival(n, b)
            IN  i < j =>
                  IF opts.NoSort THEN arrival
                  ELSE /\ ~(IF opts.ReverSort THEN Strictly(key, a, b)
                                              ELSE Strictly(key, b, a))
                       /\ (~Strictly(key, a, b) /\ ~Strictly(key, b, a)
                             /\ ~(a.fi.isNil /\ b.fi.isNil)) => arrival

\* Two key flags are set, and the children of the root stand against the
\* order of the comparator of lower priority.
C8_Witness ==
    /\ pc = "visited" /\ ~opts.NoSort /\ Cardinality(FlagsSet(opts)) = 2
    /\ \E k \in FlagsSet(opts) : \E i, j \in 1..Len(root.nodes) :
          /\ Priority[k] # Chosen(opts) /\ i < j
          /\ IF opts.ReverSort THEN Strictly(Priority[k], root.nodes[i], root.nodes[j])
                               ELSE Strictly(Priority[k], root.nodes[j], root.nodes[i])

(***************************************************************************)
(* C9.  Print writes one line per node of the tree, in pre-order.  What is *)
(* written before a node's own text is decided by the places of the node   *)
(* and of its ancestors among their siblings: for each ancestor below the  *)
(* root a bar when it is not the last child of its parent and four spaces  *)
(* when it is, then for the node itself the branch glyph when it is not    *)
(* the last child and the corner glyph when it is.  With NoIndent nothing  *)
(* is written before any node's text.                                      *)
(***************************************************************************)
RECURSIVE Trails(_, _)
RECURSIVE TrailsFrom(_, _, _)
\* The nodes in pre-order, each with its trail: for every ancestor below
\* the root and then for the node itself, whether it is a last child.
Trails(node, trail) == <<[n |-> node, trail |-> trail]>> \o TrailsFrom(node.nodes, 1, trail)

TrailsFrom(nodes, i, trail) ==
    IF i > Len(nodes) THEN <<>>
    ELSE Trails(nodes[i], Append(trail, i = Len(nodes))) \o TrailsFrom(nodes, i + 1, trail)

PrefixOf(trail) ==
    IF opts.NoIndent THEN <<>>
    ELSE [m \in 1..Len(trail) |->
            IF m < Len(trail) THEN (IF trail[m] THEN Blank ELSE Bar)
            ELSE (IF trail[m] THEN Corner ELSE Branch)]

\* The last element of the name a line shows is the base name of its node.
LineOf(line, n) ==
    /\ line.isErr <=> IsErrNode(n)
    /\ line.name # <<>> /\ line.name[Len(line.name)] = Base(n.path)

C9_PreOrderWithGlyphs ==
    pc = "printed" =>
        LET trails == Trails(root, <<>>)
        IN  /\ Len(out) = Len(trails)
            /\ \A i \in 1..Len(trails) :
                  /\ LineOf(out[i], trails[i].n)
                  /\ out[i].pre = PrefixOf(trails[i].trail)

\* A line below a child that is not the last, one below a child that is
\* the last, and a line three levels down.
C9_Witness ==
    /\ pc = "printed" /\ ~opts.NoIndent
    /\ \E i, j \in 1..Len(out) :
          /\ Len(out[i].pre) >= 2 /\ out[i].pre[1] = Bar
          /\ Len(out[j].pre) >= 2 /\ out[j].pre[1] = Blank
          /\ \E k \in 1..Len(out) : Len(out[k].pre) = 3

(***************************************************************************)
(* C10.  dirRecursiveSize on the directory nodes of the tree, as Visit     *)
(* leaves it and as Print leaves it.                                       *)
(***************************************************************************)
RECURSIVE FileBytes(_, _, _)
\* The sum of the sizes of the files and links among flat[i..], those
\* below a link counted only when withAdded is set.
FileBytes(flat, i, withAdded) ==
    IF i > Len(flat) THEN 0
    ELSE (IF IsFileNode(flat[i].n) /\ (withAdded \/ ~flat[i].added)
          THEN flat[i].n.fi.size ELSE 0)
         + FileBytes(flat, i + 1, withAdded)

\* C10 as the specification states it: the sum is over all descendants
\* that are neither directories nor errors, and an error on any descendant
\* is reported.
C10_SumOverAllDescendants ==
    pc # "new" =>
        \A n \in AllNodes(root) : IsDirNode(n) =>
            LET flat == Flat(n, FALSE)
                rs == dirRecursiveSize(opts, n)
            IN  /\ rs.size = FileBytes(flat, 2, TRUE)
                /\ (\E i \in 2..Len(flat) : IsErrNode(flat[i].n)) => rs.err # NoErr

\* C10 as the code has it: the descendants are those reached through
\* directories.  A link adds its own size; the children Print attached to
\* a followed link add nothing, and an error among them is not reported.
C10_SumThroughDirectories ==
    pc # "new" =>
        \A n \in AllNodes(root) : IsDirNode(n) =>
            LET flat == Flat(n, FALSE)
                rs == dirRecursiveSize(opts, n)
            IN  /\ rs.size = FileBytes(flat, 2, FALSE)
                /\ (\E i \in 2..Len(flat) : IsErrNode(flat[i].n) /\ ~flat[i].added)
                      => rs.err # NoErr

\* Print has written the size of the root; in a directory below the root
\* are an entry with an error and, next to it, a directory that holds a
\* file.
C10_Witness ==
    /\ pc = "printed" /\ out[1].size.shown /\ ~out[1].size.blank
    /\ out[1].size.bytes = dirRecursiveSize(opts, TreeUnder(opts)).size
    /\ \E n \in Below(root) :
          /\ IsDirNode(n)
          /\ \E i, j \in 1..Len(n.nodes) :
                /\ IsErrNode(n.nodes[i]) /\ IsDirNode(n.nodes[j])
                /\ \E x \in Below(n.nodes[j]) : IsFileNode(x) /\ x.fi.size > 0

(***************************************************************************)
(* C11.  formatBytes takes the largest unit the size is strictly greater   *)
(* than, so a size equal to a unit is written in the unit below; plain     *)
(* bytes have no suffix and no decimal, a scaled value below 10 has one    *)
(* decimal, a scaled value of 10 or more has none; 999 gives 999, 1024     *)
(* gives 1024, 1025 gives 1.0K, 10240 gives 10K.                           *)
(***************************************************************************)
\* The size is KB^k.
IsUnit(i, k) == i = Zeros(k) \o <<1>>

\* The size is below KB^k.
IsBelow(i, k) == Len(i) <= k

Text(whole, tenth, unit) == [whole |-> whole, tenth |-> tenth, unit |-> unit]

Invalid(pattern) == pattern # "" /\ ~Compiles(pattern)

C12_InvalidPatternMatchesNothing ==
    pc = "visited" =>
        /\ (Invalid(opts.Pattern) \/ Invalid(opts.IPattern)) =>
              \A n \in AllNodes(root) :
                  IsErrNode(n) => Fails(n.path) /\ n.err \in {ErrStat, ErrNotExist, ErrReadDir}
        /\ Invalid(opts.Pattern) =>
              /\ files = 0
              /\ \A n \in Below(root) : ~IsFileNode(n)
        /\ Invalid(opts.IPattern) =>
              LET without == VisitNode(fs, [opts EXCEPT !.IPattern = ""], Root, 0, {})
              IN  /\ root = without.node
                  /\ dirs = without.dirs /\ files = without.files

\* Pattern does not compile, under MatchDirs: a file of the root is
\* dropped, a file in a directory is dropped, and a directory is kept.
C12_Witness ==
    /\ pc = "visited" /\ Invalid(opts.Pattern) /\ opts.MatchDirs
    /\ \E q \in Entries(Root) : StatOk(q) /\ ~IsDirPath(q) /\ q \notin ChildPaths(root)
    /\ \E n \in Below(root) :
          IsDirNode(n) /\ \E q \in Entries(n.path) : StatOk(q) /\ ~IsDirPath(q)

(***************************************************************************)
(* C13.  What Visit returns for a node it recorded an error on.            *)
(***************************************************************************)
\* The Visit of the node again, from its own path and depth.
Again(n) == VisitNode(fs, opts, n.path, n.depth, {})

\* C13 as the specification states it: an errored node has no children
\* and its Visit returns zero directories and zero files.
C13_ErrorsReturnZero ==
    pc = "visited" =>
        \A n \in AllNodes(root) : IsErrNode(n) =>
            /\ n.nodes = <<>>
            /\ Again(n).node = n
            /\ Again(n).dirs = 0 /\ Again(n).files = 0

\* C13 as the code has it: an errored node has no children and returns no
\* files.  When Stat failed it returns no directory; when ReadDir failed
\* on a directory below the root that directory had been counted, and its
\* Visit returns one directory, which every ancestor adds to its total.
C13_UnreadableCountsAsDirectory ==
    pc = "visited" =>
        /\ \A n \in AllNodes(root) : IsErrNode(n) =>
              /\ n.nodes = <<>>
              /\ Again(n).node = n
              /\ Again(n).files = 0
              /\ Again(n).dirs = (IF IsUnreadNode(n) /\ n.depth # 0 THEN 1 ELSE 0)
        /\ IsDirNode(root) => CountsOfTree

\* In one directory Stat failed for one entry and ReadDir for another.
C13_Witness ==
    /\ pc = "visited"
    /\ \E n \in Below(root) : \E i, j \in 1..Len(n.nodes) :
          /\ IsErrNode(n.nodes[i]) /\ n.nodes[i].fi.isNil
          /\ IsUnreadNode(n.nodes[j])
    /\ dirs > 1

(***************************************************************************)
(* C14.  The directory-match exclusion and the listing of the directory.   *)
(***************************************************************************)
\* Visit has visited the entry at p.
Reached(p) == Clean(Abs(p)) \in vpaths

\* The directories below the root that Visit reached and that match
\* IPattern.
ExcludedDirs ==
    {p \in DOMAIN fs :
        Len(p) > 1 /\ IsDirPath(p) /\ Reached(p) /\ Matches(p, opts.IPattern)}

\* All the names ReadDir gives for p.
Names(p) == {Join(p, fs[p].names[i]) : i \in 1..Len(fs[p].names)}

\* C14 as the specification states it: whatever Pattern is, no child of a
\* directory that matches IPattern is visited.
C14_ExcludedDirNeverListed ==
    (pc = "visited" /\ opts.MatchDirs /\ opts.IPattern # "") =>
        \A p \in ExcludedDirs : \A q \in Names(p) : ~Reached(q)

\* C14 as the code has it.  With an empty Pattern the Visit of such a
\* directory returns before ReadDir: it has no children, records no
\* listing error, inserts its own path only and returns one directory.
\* With a Pattern set the exclusion is not tested before the listing: the
\* directory is listed like any other, its entries are visited and
\* inserted into the visited-set, and a failing ReadDir is recorded.
C14_ListedWhenPatternSet ==
    (pc = "visited" /\ opts.MatchDirs /\ opts.IPattern # "") =>
        \A p \in ExcludedDirs :
            LET own == VisitNode(fs, opts, p, Len(p) - 1, {})
            IN  IF opts.Pattern = ""
                THEN /\ \A q \in Names(p) : ~Reached(q)
                     /\ own.node.nodes = <<>> /\ own.node.err = NoErr
                     /\ own.vp = {Clean(Abs(p))}
                     /\ own.dirs = 1 /\ own.files = 0
                ELSE /\ \A q \in Entries(p) : Reached(q)
                     /\ ~tooDeep(Len(p) - 1, opts) => own.node.err = fs[p].readErr
                     /\ own.vp = {Clean(Abs(p))} \cup
                                 UNION {VisitNode(fs, opts, q, Len(q) - 1, {}).vp :
                                            q \in Entries(p)}

\* With an empty Pattern a directory that matches IPattern and has entries
\* is reached, and so is one whose listing would fail.
C14_Witness ==
    /\ pc = "visited" /\ opts.MatchDirs /\ opts.IPattern # "" /\ opts.Pattern = ""
    /\ \E p \in ExcludedDirs :
          /\ \E q \in Names(p) : StatOk(q) /\ ~hidden(Base(q), opts)
          /\ ~tooDeep(Len(p) - 1, opts)
    /\ root.nodes # <<>>

(***************************************************************************)
(* C15.  In directory-match mode a directory below the root that matches   *)
(* Pattern spares its own file entries the test against Pattern, not the   *)
(* test against IPattern; the files of a directory that does not match     *)
(* are tested against Pattern, also when the directory lies in one that    *)
(* matches.  (Under DirsOnly no file is kept in either.)                   *)
(***************************************************************************)
FileChildren(n) == {n.nodes[i].path : i \in {k \in 1..Len(n.nodes) : IsFileNode(n.nodes[k])}}

FileEntries(p) == {q \in Entries(p) : StatOk(q) /\ ~IsDirPath(q)}

Earned(n) == n.depth # 0 /\ Matches(n.path, opts.Pattern)

C15_BypassForImmediateFiles ==
    (pc = "visited" /\ opts.MatchDirs /\ opts.Pattern # "") =>
        \A n \in AllNodes(root) : Listed(n) =>
            FileChildren(n) =
                {q \in FileEntries(n.path) :
                    /\ ~opts.DirsOnly
                    /\ Earned(n) \/ Matches(q, opts.Pattern)
                    /\ ~(opts.IPattern # "" /\ Matches(q, opts.IPattern))}

\* A directory that matches Pattern keeps a file that does not match it
\* and has dropped one that matches IPattern; its subdirectory, which does
\* not match Pattern, has dropped a file that does not match it.
C15_Witness ==
    /\ pc = "visited" /\ opts.MatchDirs /\ opts.Pattern # ""
    /\ \E n \in Below(root) :
          /\ Listed(n) /\ Earned(n)
          /\ \E q \in FileChildren(n) : ~Matches(q, opts.Pattern)
          /\ \E q \in FileEntries(n.path) : Matches(q, opts.IPattern)
          /\ \E i \in 1..Len(n.nodes) :
                /\ Listed(n.nodes[i]) /\ ~Earned(n.nodes[i])
                /\ FileEntries(n.nodes[i].path) # {}
                /\ FileChildren(n.nodes[i]) = {}

(***************************************************************************)
(* C16.  The depth limit.                                                  *)
(***************************************************************************)
\* The directories at the depth of the limit that Visit reached.
AtLimit ==
    {p \in DOMAIN fs : IsDirPath(p) /\ Len(p) - 1 = opts.DeepLevel /\ Reached(p)}

InTree(p) == \E n \in AllNodes(root) : n.path = p

\* The exclusion of directory-match mode applies to p or to a directory
\* above it.
ExcludedAbove(p) ==
    /\ opts.MatchDirs /\ opts.IPattern # ""
    /\ \E k \in 2..Len(p) : Matches(SubSeq(p, 1, k), opts.IPattern)

\* C16 as the specification states it: a directory at the depth of the
\* limit is kept in the tree, without children.
C16_DirAtLimitKept ==
    (pc = "visited" /\ opts.DeepLevel > 0) =>
        /\ \A n \in AllNodes(root) : n.depth <= opts.DeepLevel
        /\ \A p \in AtLimit :
              \E n \in AllNodes(root) : n.path = p /\ n.nodes = <<>>

\* C16 as the code has it.  No node is deeper than the limit.  The Visit
\* of a directory at the depth of the limit returns one directory and no
\* file without calling ReadDir: no children, no listing error, none of
\* its entries visited.  Its parent counts and keeps it unless Prune is
\* set, which drops it for its zero files whatever it holds, or the
\* exclusion of directory-match mode applies; the counts are those of the
\* tree that is left.
C16_DirAtLimitPrunedAsEmpty ==
    (pc = "visited" /\ opts.DeepLevel > 0) =>
        /\ \A n \in AllNodes(root) : n.depth <= opts.DeepLevel
        /\ \A p \in AtLimit :
              LET own == VisitNode(fs, opts, p, Len(p) - 1, {})
              IN  /\ own.node.nodes = <<>> /\ own.node.err = NoErr
                  /\ own.dirs = 1 /\ own.files = 0
                  /\ own.vp = {Clean(Abs(p))}
                  /\ \A q \in Names(p) : ~Reached(q)
                  /\ InTree(p) <=> (~opts.Prune /\ ~ExcludedAbove(p))
        /\ IsDirNode(root) => CountsOfTree

\* A directory at the depth of the limit holds a file and is kept; another
\* one's listing would fail.
C16_Witness ==
    /\ pc = "visited" /\ opts.DeepLevel > 0
    /\ \E p \in AtLimit :
          /\ InTree(p)
          /\ \E q \in Names(p) : StatOk(q) /\ ~IsDirPath(q) /\ ~hidden(Base(q), opts)
    /\ dirs > 0

C18_ErrorForAnyDeepDescendant ==
    (pc = "visited" /\ opts.DeepLevel > 0) =>
        \A n \in AllNodes(root) : IsDirNode(n) =>
            ((\E m \in Below(n) : m.depth >= opts.DeepLevel)
                => dirRecursiveSize(opts, n).err = ErrDepth)

\* A directory node at the limit or deeper, the node itself or one below.
DeepDir(n) == \E m \in AllNodes(n) : IsDirNode(m) /\ m.depth >= opts.DeepLevel

\* C18 as the code has it.  dirRecursiveSize returns the sum of the files
\* it reaches with an error that is not nil exactly when the directory or
\* a directory below it lies at the limit or deeper, or a node below it has
\* an error; without a node in error it is the depth error.  Files at the
\* limit are summed and raise no error.  Print writes the blank field
\* exactly when the error is not nil and the sum is not positive.
C18_ErrorForDeepDirectories ==
    /\ (pc = "visited" /\ opts.DeepLevel > 0) =>
          \A n \in AllNodes(root) : IsDirNode(n) =>
              LET rs == dirRecursiveSize(opts, n)
                  errs == \E m \in Below(n) : IsErrNode(m)
              IN  /\ rs.err # NoErr <=> (DeepDir(n) \/ errs)
                  /\ (DeepDir(n) /\ ~errs) => rs.err = ErrDepth
                  /\ rs.size = FileBytes(Flat(n, FALSE), 2, FALSE)
    /\ (pc = "printed" /\ opts.DeepLevel > 0 /\ (opts.ByteSize \/ opts.UnitSize)) =>
          LET flat == Flat(root, FALSE)
          IN  /\ Len(out) = Len(flat)
              /\ \A i \in 1..Len(flat) : IsDirNode(flat[i].n) =>
                    LET rs == dirRecursiveSize(opts, flat[i].n)
                    IN  /\ out[i].size.shown
                        /\ out[i].size.blank <=> (rs.err # NoErr /\ rs.size <= 0)
                        /\ ~out[i].size.blank => out[i].size.bytes = rs.size

\* Under a depth limit Print has written a blank size for one directory
\* and, for another with the depth error, the sum of its files; a file
\* lies at the limit.
C18_Witness ==
    /\ pc = "printed" /\ opts.DeepLevel > 0
    /\ \E i \in 1..Len(out) : out[i].size.blank
    /\ \E n \in AllNodes(root) :
          /\ IsDirNode(n) /\ dirRecursiveSize(opts, n).err = ErrDepth
          /\ dirRecursiveSize(opts, n).size > 0
    /\ \E n \in Below(root) : IsFileNode(n) /\ n.depth = opts.DeepLevel

(***************************************************************************)
(* C19.  For a node with an error Print writes the one line of its name    *)
(* and message, with no size and no children; the message is all of the    *)
(* error text after its first ": ", or the whole text when it has none.    *)
(***************************************************************************)
\* The segments of the error text after its first ": ".
Remainder(err) == IF Len(err) > 1 THEN Tail(err) ELSE err

C19_MessageIsRemainder ==
    pc = "printed" =>
        LET flat == Flat(root, FALSE)
        IN  /\ Len(out) = Len(flat)
            /\ \A i \in 1..Len(flat) : IsErrNode(flat[i].n) =>
                  /\ flat[i].n.nodes = <<>>
                  /\ out[i].isErr /\ out[i].size = NoSize
                  /\ out[i].target = <<>> /\ ~out[i].recursive
                  /\ out[i].name = (IF opts.FullPath THEN flat[i].n.path
                                    ELSE <<Base(flat[i].n.path)>>)
                  /\ <<out[i].msg>> = Remainder(flat[i].n.err)

\* Print has written the line of an error whose text has two separators.
C19_Witness ==
    /\ pc = "printed"
    /\ \E i \in 1..Len(out) : out[i].isErr /\ out[i].msg = "lstat"
    /\ \E n \in Below(root) : n.err = ErrWrapped

(***************************************************************************)
(* C20.  CTimeSort is a strict ordering of the records of siblings: it is  *)
(* false of a record and itself and never true of a pair in both orders,   *)
(* the records missing because Stat failed among them.                     *)
(***************************************************************************)
\* The records of the nodes that are siblings in the tree.
SiblingRecords ==
    UNION { {<<m.nodes[i].fi, m.nodes[j].fi>> :
                <<i, j>> \in (1..Len(m.nodes)) \X (1..Len(m.nodes))} :
            m \in AllNodes(root) }

C20_CTimeSortStrict ==
    pc = "visited" =>
        \A ab \in SiblingRecords :
            /\ ~CTimeSort(ab[1], ab[1])
            /\ ~(CTimeSort(ab[1], ab[2]) /\ CTimeSort(ab[2], ab[1]))

\* Sorted by CTimeSort, a directory holds two entries whose Stat failed
\* and one with a record.
C20_Witness ==
    /\ pc = "visited" /\ opts.CTimeSort
    /\ \E ab \in SiblingRecords : ab[1].isNil /\ ~ab[2].isNil
    /\ \E n \in AllNodes(root) :
          Cardinality({i \in 1..Len(n.nodes) : n.nodes[i].fi.isNil}) = 2

Changed == {i \in 1..Len(out) : i > Len(out2) \/ out2[i] # out[i]}

====
